---- MODULE Spec2Model ----
(***************************************************************************)
(* Model of src/parse.rs: the derive transform `expand`, which turns a     *)
(* struct into a sequence of (widget, description) rows and an enum into   *)
(* a selector.  Strings are sequences of one-character strings so that     *)
(* strip_prefix / strip_suffix / trim / join are computed, not assumed.    *)
(* The two iterators handed to quote!'s repetition are lazy: the widget    *)
(* iterator is advanced first in every round of the repetition and then    *)
(* the description iterator, and the repetition stops at the first None.   *)
(***************************************************************************)
EXTENDS Naturals, Sequences, FiniteSets

\* Largest number of fields (or variants) of an enumerated input type.
MaxFields == 2
\* Largest number of attributes an input type carries, over all its fields.
MaxAttrs == 3

VARIABLES input, pc, fi, ai, di, yielded, rows, plan, panic

vars == <<input, pc, fi, ai, di, yielded, rows, plan, panic>>

-----------------------------------------------------------------------------
(* Strings *)

Q == "\""
Str_doc == "doc"
Str_control == "control"

\* "No doc comment found"
NoDocCommentFound ==
    <<"N","o"," ","d","o","c"," ","c","o","m","m","e","n","t"," ","f","o","u","n","d">>

\* str::strip_prefix('"'), keeping the string when the prefix is absent
strip_prefix(s) == IF Len(s) > 0 /\ Head(s) = Q THEN Tail(s) ELSE s

\* str::strip_suffix('"'), keeping the string when the suffix is absent
strip_suffix(s) == IF Len(s) > 0 /\ s[Len(s)] = Q THEN SubSeq(s, 1, Len(s) - 1) ELSE s

IsWhitespace(c) == c \in {" ", "\t"}

RECURSIVE trim_start(_)
trim_start(s) == IF Len(s) > 0 /\ IsWhitespace(Head(s)) THEN trim_start(Tail(s)) ELSE s

RECURSIVE trim_end(_)
trim_end(s) ==
    IF Len(s) > 0 /\ IsWhitespace(s[Len(s)]) THEN trim_end(SubSeq(s, 1, Len(s) - 1)) ELSE s

\* str::trim
trim(s) == trim_end(trim_start(s))

\* [String]::join(" ")
RECURSIVE join(_, _)
join(ss, sep) ==
    IF ss = <<>> THEN <<>>
    ELSE IF Len(ss) = 1 THEN ss[1]
    ELSE ss[1] \o sep \o join(Tail(ss), sep)

-----------------------------------------------------------------------------
(* Documentation: parse_doc_comments_from_fields *)

\* DocToken without the trim.
DocTokenUntrimmed(token) == strip_suffix(strip_prefix(token))

\* The text pushed for one doc literal: quotes stripped once each side, trimmed.
DocToken(token) == trim(strip_suffix(strip_prefix(token)))

\* path.segments.iter().for_each: one push per segment named doc, when the
\* value is a string literal.
RECURSIVE SegmentDocs(_, _)
SegmentDocs(segments, value) ==
    IF segments = <<>> THEN <<>>
    ELSE (IF Head(segments) = Str_doc /\ value.lit = "Str"
          THEN <<DocToken(value.token)>> ELSE <<>>)
         \o SegmentDocs(Tail(segments), value)

\* field.attrs.iter().for_each: the doc_comments vector of one field.
RECURSIVE doc_comments(_)
doc_comments(attrs) ==
    IF attrs = <<>> THEN <<>>
    ELSE (IF Head(attrs).meta = "NameValue"
          THEN SegmentDocs(Head(attrs).path, Head(attrs).value) ELSE <<>>)
         \o doc_comments(Tail(attrs))

\* The closure mapped over the fields.
FieldDoc(field) ==
    LET dc == doc_comments(field.attrs)
    IN  IF dc = <<>> THEN NoDocCommentFound ELSE join(dc, <<" ">>)

parse_doc_comments_from_fields(fields) ==
    [i \in 1..Len(fields) |-> FieldDoc(fields[i])]

-----------------------------------------------------------------------------
(* Widgets: parse_widgets_from_fields *)

NoIdent == <<>>

Slider(name, stream) == [ctor |-> "Slider::new", name |-> name, stream |-> stream]
TextEdit(name) == [ctor |-> "TextEdit::singleline", name |-> name, stream |-> ""]
Checkbox(name) == [ctor |-> "Checkbox::without_text", name |-> name, stream |-> ""]

OptNone == [tag |-> "None"]
OptSome(w) == [tag |-> "Some", widget |-> w]
Panicked(msg) == [tag |-> "Panic", msg |-> msg]

\* AttrWidget without the textbox arm.
AttrWidgetNoTextbox(name, attr) ==
    IF attr.meta = "List" /\ attr.path = <<Str_control>>
    THEN LET tokens == attr.tokens
         IN  IF tokens # <<>> /\ tokens[1].tt = "Ident"
             THEN IF tokens[1].text = "slider"
                  THEN IF Len(tokens) < 2
                       THEN Panicked("slider to be provided a InclusiveRange prop")
                       ELSE IF tokens[2].tt # "Group"
                       THEN Panicked("slider expects an InclusiveRange prop.")
                       ELSE OptSome(Slider(name, tokens[2].text))
                  ELSE IF tokens[1].text = "bool" THEN OptSome(Checkbox(name))
                  ELSE OptNone
             ELSE OptNone
    ELSE OptNone

\* AttrWidget with the last arm taken by every kind that is not slider or textbox.
AttrWidgetElseBool(name, attr) ==
    IF attr.meta = "List" /\ attr.path = <<Str_control>>
    THEN LET tokens == attr.tokens
         IN  IF tokens # <<>> /\ tokens[1].tt = "Ident"
             THEN IF tokens[1].text = "slider"
                  THEN IF Len(tokens) < 2
                       THEN Panicked("slider to be provided a InclusiveRange prop")
                       ELSE IF tokens[2].tt # "Group"
                       THEN Panicked("slider expects an InclusiveRange prop.")
                       ELSE OptSome(Slider(name, tokens[2].text))
                  ELSE IF tokens[1].text = "textbox" THEN OptSome(TextEdit(name))
                  ELSE OptSome(Checkbox(name))
             ELSE OptNone
    ELSE OptNone

\* AttrWidget unwrapping the first token as an identifier.
AttrWidgetExpectIdent(name, attr) ==
    IF attr.meta = "List" /\ attr.path = <<Str_control>>
    THEN LET tokens == attr.tokens
         IN  IF tokens # <<>> /\ tokens[1].tt = "Ident"
             THEN IF tokens[1].text = "slider"
                  THEN IF Len(tokens) < 2
                       THEN Panicked("slider to be provided a InclusiveRange prop")
                       ELSE IF tokens[2].tt # "Group"
                       THEN Panicked("slider expects an InclusiveRange prop.")
                       ELSE OptSome(Slider(name, tokens[2].text))
                  ELSE IF tokens[1].text = "textbox" THEN OptSome(TextEdit(name))
                  ELSE IF tokens[1].text = "bool" THEN OptSome(Checkbox(name))
                  ELSE OptNone
             ELSE Panicked("control expects a kind")
    ELSE OptNone

\* The filter_map closure: one attribute of the field called name.
AttrWidget(name, attr) ==
    IF attr.meta = "List" /\ attr.path = <<Str_control>>
    THEN LET tokens == attr.tokens
         IN  IF tokens # <<>> /\ tokens[1].tt = "Ident"
             THEN IF tokens[1].text = "slider"
                  THEN IF Len(tokens) < 2
                       THEN Panicked("slider to be provided a InclusiveRange prop")
                       ELSE IF tokens[2].tt # "Group"
                       THEN Panicked("slider expects an InclusiveRange prop.")
                       ELSE OptSome(Slider(name, tokens[2].text))
                  ELSE IF tokens[1].text = "textbox" THEN OptSome(TextEdit(name))
                  ELSE IF tokens[1].text = "bool" THEN OptSome(Checkbox(name))
                  ELSE OptNone
             ELSE OptNone
    ELSE OptNone

\* One call of next() on the flat_map/filter_map iterator standing before
\* attribute a of field f (a = 0: the field's closure has not run yet).
\* The answer carries the position the iterator is left at.
RECURSIVE WidgetsNext(_, _, _)
WidgetsNext(fields, f, a) ==
    IF f > Len(fields) THEN [tag |-> "None", f |-> f, a |-> a]
    ELSE IF a = 0
    THEN IF fields[f].ident = NoIdent
         THEN [tag |-> "Panic", msg |-> "called Option::unwrap on a None value",
               f |-> f, a |-> a]
         ELSE WidgetsNext(fields, f, 1)
    ELSE IF a > Len(fields[f].attrs) THEN WidgetsNext(fields, f + 1, 0)
    ELSE LET r == AttrWidget(fields[f].ident, fields[f].attrs[a])
         IN  IF r.tag = "Some"
             THEN [tag |-> "Some", widget |-> r.widget, f |-> f, a |-> a + 1]
             ELSE IF r.tag = "Panic"
             THEN [tag |-> "Panic", msg |-> r.msg, f |-> f, a |-> a]
             ELSE WidgetsNext(fields, f, a + 1)

\* The iterator run to its end from a position: what it yields, and whether
\* it stops by a panic.
RECURSIVE WidgetsFrom(_, _, _)
WidgetsFrom(fields, f, a) ==
    LET r == WidgetsNext(fields, f, a)
    IN  IF r.tag = "Some"
        THEN LET t == WidgetsFrom(fields, r.f, r.a)
             IN  [seq |-> <<r.widget>> \o t.seq, panicked |-> t.panicked]
        ELSE [seq |-> <<>>, panicked |-> (r.tag = "Panic")]

parse_widgets_from_fields(fields) == WidgetsFrom(fields, 1, 0)

-----------------------------------------------------------------------------
(* The input: a syn::DeriveInput *)

Tok(tt, text) == [tt |-> tt, text |-> text]
NoValue == [lit |-> "None", token |-> <<>>]

\* #[control(tokens)] and other Meta::List attributes
MetaList(path, tokens) ==
    [meta |-> "List", path |-> path, tokens |-> tokens, value |-> NoValue]
\* #[path = value]
MetaNameValue(path, lit, token) ==
    [meta |-> "NameValue", path |-> path, tokens |-> <<>>,
     value |-> [lit |-> lit, token |-> token]]

SliderRange == MetaList(<<Str_control>>, <<Tok("Ident", "slider"), Tok("Group", "1..=10")>>)
SliderBare == MetaList(<<Str_control>>, <<Tok("Ident", "slider")>>)
SliderLiteral == MetaList(<<Str_control>>, <<Tok("Ident", "slider"), Tok("Literal", "5")>>)
ControlTextbox == MetaList(<<Str_control>>, <<Tok("Ident", "textbox")>>)
ControlBool == MetaList(<<Str_control>>, <<Tok("Ident", "bool")>>)
ControlUnknown == MetaList(<<Str_control>>, <<Tok("Ident", "dropdown")>>)
ControlEmpty == MetaList(<<Str_control>>, <<>>)
ControlLiteral == MetaList(<<Str_control>>, <<Tok("Literal", "5")>>)
OtherList == MetaList(<<"serde">>, <<Tok("Ident", "bool")>>)
DocHidden == MetaList(<<Str_doc>>, <<Tok("Ident", "hidden")>>)

\* /// a
DocA == MetaNameValue(<<Str_doc>>, "Str", <<Q, " ", "a", Q>>)
\* #[doc = "b "]
DocB == MetaNameValue(<<Str_doc>>, "Str", <<Q, "b", " ", Q>>)
\* #[doc = "\""]
DocQuote == MetaNameValue(<<Str_doc>>, "Str", <<Q, "\\", Q, Q>>)
\* #[doc = 5]
DocInt == MetaNameValue(<<Str_doc>>, "Int", <<"5">>)
\* #[note = "a"]
OtherNameValue == MetaNameValue(<<"note">>, "Str", <<Q, "a", Q>>)

\* The attributes the inputs of Spec draw from: the branches of the control
\* grammar, and one doc line to tell descriptions apart.
ControlAttrs ==
    {SliderRange, SliderBare, ControlTextbox, ControlBool, ControlUnknown,
     ControlEmpty, ControlLiteral, OtherList, DocA}

\* The attributes the inputs of SpecDoc draw from: the branches of the doc
\* scan, and two control annotations.
DocAttrs ==
    {DocA, DocB, DocQuote, DocInt, OtherNameValue, DocHidden, ControlBool,
     SliderLiteral}

\* The attributes of the inputs that are not structs with named fields.
ShapeAttrs == {ControlBool, DocA}

\* The ways to hand k attributes, in order, to n fields: owner[j] is the
\* field carrying the j-th attribute.
Owners(n, k) ==
    {o \in [1..k -> 1..n] : \A j \in 1..k : j < k => o[j] <= o[j + 1]}

\* The attributes of field i, in order
RECURSIVE AttrsOf(_, _, _, _)
AttrsOf(flat, owner, i, j) ==
    IF j > Len(flat) THEN <<>>
    ELSE (IF owner[j] = i THEN <<flat[j]>> ELSE <<>>) \o AttrsOf(flat, owner, i, j + 1)

\* The attribute lists of n fields, given the attributes and their owners
AttrList(n, flat, owner) == [i \in 1..n |-> AttrsOf(flat, owner, i, 1)]

\* syn::Ident of the i-th named field
FieldIdent(i) == <<"field", i>>

NamedFields(al) == [i \in 1..Len(al) |-> [ident |-> FieldIdent(i), attrs |-> al[i]]]
UnnamedFields(al) == [i \in 1..Len(al) |-> [ident |-> NoIdent, attrs |-> al[i]]]

DeriveInput(data, shape, fields) ==
    [ident |-> "T", data |-> data, shape |-> shape, fields |-> fields]

\* The shapes of input besides the struct with named fields: tuple structs,
\* the unit struct, enums (fields: the variants) and unions
OtherShapes(al) ==
    {DeriveInput("Struct", "Unnamed", UnnamedFields(al)),
     DeriveInput("Struct", "Unit", <<>>),
     DeriveInput("Enum", "Variants", NamedFields(al)),
     DeriveInput("Union", "Named", NamedFields(al))}

\* The inputs: at most MaxFields fields carrying at most MaxAttrs attributes
\* together; structs with named fields draw them from S.
IsInput(S, x) ==
    \E n \in 0..MaxFields, k \in 0..MaxAttrs :
        \E owner \in Owners(n, k) :
            \/ \E flat \in [1..k -> S] :
                  x = DeriveInput("Struct", "Named", NamedFields(AttrList(n, flat, owner)))
            \/ \E flat \in [1..k -> ShapeAttrs] :
                  x \in OtherShapes(AttrList(n, flat, owner))

-----------------------------------------------------------------------------
(* expand *)

NoPlan == [kind |-> "None"]
FormPlan(name, rs) == [kind |-> "Form", name |-> name, rows |-> rs]
SelectorPlan(name) == [kind |-> "Selector", name |-> name, rows |-> <<>>]

\* The row the repetition emits: ui.add(widget); ui.label(doc)
FormRow(widget, doc) == [widget |-> widget, doc |-> doc]

\* The selectable values the generated enum body offers, given the sequence
\* IntoEnumIterator::iter() supplies: (value, label) per variant.
SelectableValues(iter) ==
    [i \in 1..Len(iter) |-> [value |-> iter[i], text |-> <<"{}", iter[i]>>]]

Start(S) ==
    /\ IsInput(S, input)
    /\ pc = "match"
    /\ fi = 1
    /\ ai = 0
    /\ di = 1
    /\ yielded = <<>>
    /\ rows = <<>>
    /\ plan = NoPlan
    /\ panic = ""

Init == Start(ControlAttrs)

InitDoc == Start(DocAttrs)

\* Data::Struct arm: both iterators are created, nothing is pulled yet.
ExpandStruct ==
    /\ pc = "match"
    /\ input.data = "Struct"
    /\ pc' = "widgets_next"
    /\ UNCHANGED <<input, fi, ai, di, yielded, rows, plan, panic>>

\* ExpandEnum sending the enum's variants down the struct arm.
ExpandEnumAsStruct ==
    /\ pc = "match"
    /\ input.data = "Enum"
    /\ pc' = "widgets_next"
    /\ UNCHANGED <<input, fi, ai, di, yielded, rows, plan, panic>>

\* Data::Enum arm.
ExpandEnum ==
    /\ pc = "match"
    /\ input.data = "Enum"
    /\ plan' = SelectorPlan(input.ident)
    /\ pc' = "done"
    /\ UNCHANGED <<input, fi, ai, di, yielded, rows, panic>>

\* ExpandOther sending a union's fields down the struct arm.
ExpandOtherAsStruct ==
    /\ pc = "match"
    /\ input.data \notin {"Struct", "Enum"}
    /\ pc' = "widgets_next"
    /\ UNCHANGED <<input, fi, ai, di, yielded, rows, plan, panic>>

\* The catch-all arm.
ExpandOther ==
    /\ pc = "match"
    /\ input.data \notin {"Struct", "Enum"}
    /\ panic' = "expected a struct or enum"
    /\ pc' = "panicked"
    /\ UNCHANGED <<input, fi, ai, di, yielded, rows, plan>>

\* A round of the repetition starts: field_widgets.next() is Some.
WidgetsSome ==
    /\ pc = "widgets_next"
    /\ LET r == WidgetsNext(input.fields, fi, ai)
       IN  /\ r.tag = "Some"
           /\ yielded' = Append(yielded, r.widget)
           /\ fi' = r.f
           /\ ai' = r.a
    /\ pc' = "docs_next"
    /\ UNCHANGED <<input, di, rows, plan, panic>>

\* field_widgets.next() is None: the repetition ends, the impl is emitted.
WidgetsNone ==
    /\ pc = "widgets_next"
    /\ LET r == WidgetsNext(input.fields, fi, ai)
       IN  /\ r.tag = "None"
           /\ fi' = r.f
           /\ ai' = r.a
    /\ plan' = FormPlan(input.ident, rows)
    /\ pc' = "done"
    /\ UNCHANGED <<input, di, yielded, rows, panic>>

\* field_widgets.next() panics: expand unwinds, nothing is emitted.
WidgetsPanic ==
    /\ pc = "widgets_next"
    /\ LET r == WidgetsNext(input.fields, fi, ai)
       IN  /\ r.tag = "Panic"
           /\ panic' = r.msg
           /\ fi' = r.f
           /\ ai' = r.a
    /\ pc' = "panicked"
    /\ UNCHANGED <<input, di, yielded, rows, plan>>

\* DocsSome looking the description up by the field the widget is bound to.
DocsSomeByField ==
    /\ pc = "docs_next"
    /\ di <= Len(input.fields)
    /\ rows' = Append(rows, FormRow(yielded[Len(yielded)],
                                    parse_doc_comments_from_fields(input.fields)[fi]))
    /\ di' = di + 1
    /\ pc' = "widgets_next"
    /\ UNCHANGED <<input, fi, ai, yielded, plan, panic>>

\* field_docs.next() is Some: the round's row is emitted.
DocsSome ==
    /\ pc = "docs_next"
    /\ di <= Len(input.fields)
    /\ rows' = Append(rows, FormRow(yielded[Len(yielded)],
                                    parse_doc_comments_from_fields(input.fields)[di]))
    /\ di' = di + 1
    /\ pc' = "widgets_next"
    /\ UNCHANGED <<input, fi, ai, yielded, plan, panic>>

\* field_docs.next() is None: the repetition ends, the widget already pulled
\* in this round is not emitted.
DocsNone ==
    /\ pc = "docs_next"
    /\ di > Len(input.fields)
    /\ plan' = FormPlan(input.ident, rows)
    /\ pc' = "done"
    /\ UNCHANGED <<input, fi, ai, di, yielded, rows, panic>>

Next ==
    \/ ExpandStruct
    \/ ExpandEnum
    \/ ExpandOther
    \/ WidgetsSome
    \/ WidgetsNone
    \/ WidgetsPanic
    \/ DocsSome
    \/ DocsNone

Spec == Init /\ [][Next]_vars

SpecDoc == InitDoc /\ [][Next]_vars

-----------------------------------------------------------------------------
(* Vocabulary of the properties *)

Min(a, b) == IF a <= b THEN a ELSE b

\* A record: a struct with named fields
IsRecord == input.data = "Struct" /\ input.shape = "Named"

\* A control annotation: #[control(...)]
IsControl(attr) == attr.meta = "List" /\ attr.path = <<Str_control>>

FirstIdent(attr) == attr.tokens # <<>> /\ attr.tokens[1].tt = "Ident"

KindIs(attr, kind) == IsControl(attr) /\ FirstIdent(attr) /\ attr.tokens[1].text = kind

HasRange(attr) == Len(attr.tokens) >= 2 /\ attr.tokens[2].tt = "Group"

\* control(slider) with no range group after the kind tag
SliderNoRange(attr) == KindIs(attr, "slider") /\ ~HasRange(attr)

\* control(...) whose argument list does not begin with an identifier
Malformed(attr) == IsControl(attr) /\ ~FirstIdent(attr)

\* control(kind) with a kind outside {slider, textbox, bool}
UnknownKind(attr) ==
    /\ IsControl(attr)
    /\ FirstIdent(attr)
    /\ attr.tokens[1].text \notin {"slider", "textbox", "bool"}

\* control(slider(range)), control(textbox) or control(bool)
Recognized(attr) ==
    \/ KindIs(attr, "slider") /\ HasRange(attr)
    \/ KindIs(attr, "textbox")
    \/ KindIs(attr, "bool")

SomeAttr(P(_)) ==
    \E i \in 1..Len(input.fields) :
        \E j \in 1..Len(input.fields[i].attrs) : P(input.fields[i].attrs[j])

Controls(field) == SelectSeq(field.attrs, IsControl)

\* The widget a recognized control annotation asks for
WidgetAskedFor(name, attr) ==
    IF KindIs(attr, "slider") THEN Slider(name, attr.tokens[2].text)
    ELSE IF KindIs(attr, "textbox") THEN TextEdit(name)
    ELSE Checkbox(name)

\* How many of the widgets ws are bound to the field called name
BoundTo(ws, name) == Cardinality({j \in 1..Len(ws) : ws[j].name = name})

-----------------------------------------------------------------------------
(* Properties *)

C2_SliderWithoutRangeAborts ==
    (IsRecord /\ SomeAttr(SliderNoRange)) => (pc # "done" /\ plan = NoPlan)

\* C3: in the plan of a record, every field annotated control(bool) has a
\* row made of its checkbox and its own description.
C3_CheckboxWithOwnDescription ==
    (IsRecord /\ pc = "done") =>
        \A i \in 1..Len(input.fields) :
            (\E j \in 1..Len(input.fields[i].attrs) :
                KindIs(input.fields[i].attrs[j], "bool"))
            => \E r \in 1..Len(plan.rows) :
                  /\ plan.rows[r].widget = Checkbox(FieldIdent(i))
                  /\ plan.rows[r].doc = FieldDoc(input.fields[i])

\* C4 as stated: a record with a control annotation whose argument list does
\* not begin with an identifier never gets a plan.
C4_MalformedAborts ==
    (IsRecord /\ SomeAttr(Malformed)) => (pc # "done" /\ plan = NoPlan)

\* The fields with those annotations taken away
WithoutMalformed(fields) ==
    LET WellFormed(attr) == ~Malformed(attr)
    IN  [i \in 1..Len(fields) |->
            [ident |-> fields[i].ident, attrs |-> SelectSeq(fields[i].attrs, WellFormed)]]

\* C4 (amended): in a record, a control annotation whose argument list does
\* not begin with an identifier is ignored: the widgets are those of the
\* record without it, and the transform aborts only on a slider annotation
\* lacking its range group.
C4_MalformedIgnored ==
    (IsRecord /\ SomeAttr(Malformed)) =>
        /\ pc = "panicked" => SomeAttr(SliderNoRange)
        /\ parse_widgets_from_fields(input.fields)
             = parse_widgets_from_fields(WithoutMalformed(input.fields))
        /\ \A i \in 1..Len(input.fields) :
              BoundTo(yielded, FieldIdent(i))
                 <= Len(SelectSeq(input.fields[i].attrs, Recognized))

\* A record carrying such an annotation has a plan with a row.
C4_Witness ==
    /\ IsRecord
    /\ SomeAttr(Malformed)
    /\ pc = "done"
    /\ plan.kind = "Form"
    /\ plan.rows # <<>>

\* A tuple struct, the unit struct or a union
C5_NeitherRecordNorEnum ==
    \/ input.data = "Union"
    \/ input.data = "Struct" /\ input.shape \in {"Unnamed", "Unit"}

\* C5 as stated: a type that is neither a record nor an enum never gets a plan.
C5_UnsupportedShapeAborts ==
    C5_NeitherRecordNorEnum => (pc # "done" /\ plan = NoPlan)

\* C5 (amended): a union, or a tuple struct with at least one field, never
\* gets a plan and never gets past the first pull of a widget; the unit
\* struct and the tuple struct without fields do not fail and get a plan of
\* zero rows.
C5_FieldlessStructsAccepted ==
    /\ (\/ input.data = "Union"
        \/ input.data = "Struct" /\ input.shape = "Unnamed" /\ input.fields # <<>>)
       => /\ pc \in {"match", "widgets_next", "panicked"}
          /\ plan = NoPlan
          /\ yielded = <<>>
    /\ (/\ input.data = "Struct"
        /\ input.shape \in {"Unnamed", "Unit"}
        /\ input.fields = <<>>)
       => /\ pc # "panicked"
          /\ pc = "done" => plan = FormPlan(input.ident, <<>>)

\* A tuple struct with a field has panicked on the field's missing name.
C5_Witness ==
    /\ input.data = "Struct"
    /\ input.shape = "Unnamed"
    /\ input.fields # <<>>
    /\ pc = "panicked"
    /\ panic = "called Option::unwrap on a None value"

\* The documentation fragments of a field: the literals of its #[doc = "..."]
\* attributes, in order
C6_Fragments(field) ==
    LET IsDoc(attr) ==
            attr.meta = "NameValue" /\ attr.path = <<Str_doc>> /\ attr.value.lit = "Str"
        docs == SelectSeq(field.attrs, IsDoc)
    IN  [k \in 1..Len(docs) |-> docs[k].value.token]

\* A fragment without one leading and one trailing quote, then without the
\* whitespace around it
C6_Clean(s) ==
    LET lo == IF Len(s) > 0 /\ s[1] = Q THEN 2 ELSE 1
        hi == IF Len(s) >= lo /\ s[Len(s)] = Q THEN Len(s) - 1 ELSE Len(s)
        ink == {k \in lo..hi : s[k] \notin {" ", "\t"}}
    IN  IF ink = {} THEN <<>>
        ELSE SubSeq(s, CHOOSE k \in ink : \A l \in ink : k <= l,
                       CHOOSE k \in ink : \A l \in ink : k >= l)

RECURSIVE C6_SpaceJoined(_)
C6_SpaceJoined(ss) ==
    IF Len(ss) = 0 THEN <<>>
    ELSE IF Len(ss) = 1 THEN ss[1]
    ELSE C6_SpaceJoined(SubSeq(ss, 1, Len(ss) - 1)) \o <<" ">> \o ss[Len(ss)]

C6_Description(field) ==
    LET fr == C6_Fragments(field)
    IN  IF fr = <<>> THEN NoDocCommentFound
        ELSE C6_SpaceJoined([k \in 1..Len(fr) |-> C6_Clean(fr[k])])

\* C6: the descriptions of a struct are one per field, in declaration
\* order: "No doc comment found" for a field without fragments, otherwise
\* the field's fragments, each cleaned, joined in order by single spaces; and
\* the description of row r is that of field r.
C6_Descriptions ==
    input.data = "Struct" =>
        LET D == parse_doc_comments_from_fields(input.fields)
        IN  /\ Len(D) = Len(input.fields)
            /\ \A i \in 1..Len(input.fields) : D[i] = C6_Description(input.fields[i])
            /\ \A r \in 1..Len(rows) : rows[r].doc = C6_Description(input.fields[r])

\* A plan has a row whose description joins fragments, one of which had
\* whitespace to trim.
C6_Witness ==
    /\ IsRecord
    /\ pc = "done"
    /\ \E r \in 1..Len(plan.rows) :
          LET fr == C6_Fragments(input.fields[r])
          IN  /\ Len(fr) >= 2
              /\ \E k \in 1..Len(fr) : Len(C6_Clean(fr[k])) + 2 < Len(fr[k])

\* Every control annotation of the record has an unrecognized kind
C7_NoRecognizedControl ==
    /\ IsRecord
    /\ \A i \in 1..Len(input.fields) :
          \A j \in 1..Len(input.fields[i].attrs) :
              IsControl(input.fields[i].attrs[j]) => UnknownKind(input.fields[i].attrs[j])

\* C7: a record whose fields carry no control annotation, or only ones of
\* an unrecognized kind, does not fail, yields no widget and gets a plan of
\* zero rows.
C7_UnrecognizedKindsDropped ==
    C7_NoRecognizedControl =>
        /\ pc \notin {"panicked", "docs_next"}
        /\ yielded = <<>>
        /\ parse_widgets_from_fields(input.fields) = [seq |-> <<>>, panicked |-> FALSE]
        /\ pc = "done" => plan = FormPlan(input.ident, <<>>)

\* Such a record, with an annotation of an unrecognized kind, has its plan.
C7_Witness ==
    /\ C7_NoRecognizedControl
    /\ SomeAttr(UnknownKind)
    /\ pc = "done"
    /\ plan = FormPlan(input.ident, <<>>)

\* C8: for a record on which the widget iterator does not panic, the
\* widgets it yields are at most one per field, so no more than the fields,
\* and in declaration order.
C8_AtMostOneWidgetPerField ==
    (IsRecord /\ ~parse_widgets_from_fields(input.fields).panicked) =>
        /\ Len(yielded) <= Len(input.fields)
        /\ \A i \in 1..Len(input.fields) : BoundTo(yielded, FieldIdent(i)) <= 1
        /\ \A j \in 1..Len(yielded) :
              \A k \in 1..Len(yielded) : j < k => yielded[j].name[2] <= yielded[k].name[2]

\* What the variant iteration supplies: the variants in declared order
IntoEnumIterator(enum) == [i \in 1..Len(enum.fields) |-> enum.fields[i].ident]

\* C9: an enum never fails and gets a selector plan, without rows, that
\* depends on nothing but the enum's name; the selector offers each variant
\* the iteration supplies once, in that order, labelled by its display text.
C9_EnumSelector ==
    input.data = "Enum" =>
        /\ pc \in {"match", "done"}
        /\ yielded = <<>> /\ rows = <<>>
        /\ pc = "match" => plan = NoPlan
        /\ pc = "done" =>
              /\ plan = [kind |-> "Selector", name |-> input.ident, rows |-> <<>>]
              /\ LET iter == IntoEnumIterator(input)
                     sv == SelectableValues(iter)
                 IN  /\ Len(sv) = Len(input.fields)
                     /\ \A i \in 1..Len(sv) :
                           /\ sv[i].value = input.fields[i].ident
                           /\ sv[i].text = <<"{}", input.fields[i].ident>>

\* An enum of several variants, one with a control annotation and one with a
\* doc line, has its plan.
C9_Witness ==
    /\ input.data = "Enum"
    /\ pc = "done"
    /\ Len(input.fields) >= 2
    /\ SomeAttr(IsControl)
    /\ \E i \in 1..Len(input.fields) : C6_Fragments(input.fields[i]) # <<>>

\* Every field of the record carries exactly one control annotation, of a
\* recognized kind and well formed
C10_OneRecognizedControlEach ==
    /\ IsRecord
    /\ \A i \in 1..Len(input.fields) :
          /\ Len(Controls(input.fields[i])) = 1
          /\ Recognized(Controls(input.fields[i])[1])

\* C10: such a record does not fail and gets one row per field, in
\* declaration order, row i made of field i's widget and field i's
\* description.
C10_PairingByFieldIdentity ==
    C10_OneRecognizedControlEach =>
        /\ pc # "panicked"
        /\ pc = "done" =>
              /\ plan.kind = "Form"
              /\ Len(plan.rows) = Len(input.fields)
              /\ \A i \in 1..Len(input.fields) :
                    /\ plan.rows[i].widget
                         = WidgetAskedFor(FieldIdent(i), Controls(input.fields[i])[1])
                    /\ plan.rows[i].doc = FieldDoc(input.fields[i])

\* Such a record of several fields with different descriptions has its plan.
C10_Witness ==
    /\ C10_OneRecognizedControlEach
    /\ pc = "done"
    /\ Len(plan.rows) >= 2
    /\ plan.rows[1].doc # plan.rows[2].doc

====
